---- MODULE Spec2Model ----
(***************************************************************************)
(* NSW Weather Accuracy Tracker (scripts/config.py, collect_forecast.py,   *)
(* collect_actual_and_compare.py).                                         *)
(*                                                                         *)
(* Units.  Weather values and diffs are fixed-point numbers in thousandths *)
(* (20.0 degC is 20000), percentages are in tenths of a percent (33.3 % is *)
(* 333), dates are day ordinals (ISO dates of equal width order the same   *)
(* way as strings).  Python's None is the empty sequence None, a present   *)
(* value v is <<v>>.                                                       *)
(***************************************************************************)
EXTENDS Integers, Sequences, FiniteSets, TLC

VARIABLES
    clock,          \* today's date in AEST, datetime.now(AEST)
    fetchLog,       \* requests the last phase made to the provider, in order
    failures,       \* provider outages so far
    exit,           \* status returned by the last finished phase
    forecastsDir,   \* data/forecasts/<date>.json
    actualsDir,     \* data/actuals/<date>.json
    resultsDir,     \* data/results/: <date>.json and summary.json
    prevSummary,    \* summary.json as it was before the last rebuild_summary
    rebuilds,       \* calls of rebuild_summary so far
    fcIn,           \* compute_accuracy: argument forecast_regions
    actIn,          \* compute_accuracy: argument actual_regions
    accOut,         \* compute_accuracy: returned value
    resp,           \* fetch_*: the provider's response
    mode,           \* fetch_*: "forecast" or "actual"
    fetchOut        \* fetch_*: returned record or raised exception

vars == <<clock, fetchLog, failures, exit,
          forecastsDir, actualsDir, resultsDir, prevSummary, rebuilds,
          fcIn, actIn, accOut, resp, mode, fetchOut>>

pipelineVars == <<clock, fetchLog, failures, exit, forecastsDir, actualsDir>>
storeVars == <<resultsDir, prevSummary, rebuilds>>
accVars == <<fcIn, actIn, accOut>>
fetchVars == <<resp, mode, fetchOut>>

----------------------------------------------------------------------------
(* Bounds of the model *)

NumRegions == 2      \* regions of the catalog that the two phases visit
MaxRecords == 3      \* regions the record sets given to compute_accuracy draw from
MaxDay == 3          \* last day of the modelled calendar
MaxFailures == 1     \* provider outages in one behaviour
MaxRebuilds == 2     \* successive calls of rebuild_summary
HoursPerDay == 2     \* hourly samples the provider returns per day

----------------------------------------------------------------------------
(* Values *)

None == <<>>
Some(v) == <<v>>
IsNone(x) == x = None

Milli == 10^3

Abs(x) == IF x < 0 THEN -x ELSE x

\* round(): the nearest integer to num/den, a tie going to the even one.
\* (Python rounds the binary double; a decimal tie may fall either way there.)
RoundHalfEven(num, den) ==
    LET q == num \div den
        r == num % den
    IN  IF 2 * r < den THEN q
        ELSE IF 2 * r > den THEN q + 1
        ELSE IF q % 2 = 0 THEN q ELSE q + 1

\* round(x, 2) of x thousandths, in thousandths
Round2(x) == RoundHalfEven(x, 10) * 10
\* round(num/den, 1) of thousandths, in thousandths
Round1Of(num, den) == RoundHalfEven(num, den * 100) * 100

RECURSIVE SeqSum(_)
SeqSum(s) == IF s = <<>> THEN 0 ELSE Head(s) + SeqSum(Tail(s))

\* dict.get(key, default)
Get(d, key, default) == IF key \in DOMAIN d THEN d[key] ELSE default

----------------------------------------------------------------------------
(* config.py *)

Catalog ==
    << [name |-> "Sydney",     lat |-> -3387, lon |-> 15121],
       [name |-> "Newcastle",  lat |-> -3293, lon |-> 15178],
       [name |-> "Wollongong", lat |-> -3442, lon |-> 15089],
       [name |-> "Central Coast", lat |-> -3343, lon |-> 15134],
       [name |-> "Blue Mountains", lat |-> -3372, lon |-> 15031] >>

NSW_REGIONS == SubSeq(Catalog, 1, NumRegions)

METRICS == <<"high_temp", "low_temp", "wind_speed", "humidity", "rain">>
MetricSet == {METRICS[i] : i \in 1..Len(METRICS)}

THRESHOLDS ==
    [high_temp  |-> [exact |-> 0, near |-> 2, wide |-> 4],
     low_temp   |-> [exact |-> 0, near |-> 2, wide |-> 4],
     wind_speed |-> [exact |-> 0, near |-> 1, wide |-> 10],
     humidity   |-> [exact |-> 0, near |-> 5, wide |-> 10],
     rain       |-> [exact |-> 0, near |-> 1, wide |-> 5]]

\* THRESHOLDS[metric]["unit"]
Unit ==
    [high_temp |-> "degC", low_temp |-> "degC", wind_speed |-> "km/h",
     humidity |-> "%", rain |-> "mm"]

\* Daily variables to request, by the ObservationRecord key each one fills
DAILY_VARIABLES ==
    [high_temp |-> "temperature_2m_max", low_temp |-> "temperature_2m_min",
     rain |-> "precipitation_sum", wind_speed |-> "wind_speed_10m_max"]
DailyMetrics == DOMAIN DAILY_VARIABLES

\* "past_days": 2 of fetch_actual's request
PAST_DAYS == 2

----------------------------------------------------------------------------
(* The provider's response: resp.json() and the status raise_for_status()   *)
(* reads.  daily and hourly map the keys that are present to their arrays;  *)
(* an hourly time is [date, hour], whose text starts with its date.         *)

Return(record) == [ok |-> TRUE, value |-> record]
Raise(exception) == [ok |-> FALSE, error |-> exception]

HasNone(values) == \E i \in 1..Len(values) : IsNone(values[i])
Unwrap(values) == [i \in 1..Len(values) |-> values[i][1]]

\* t.startswith(target_date)
StartsWith(t, target_date) == t.date = target_date

record(region, target_date, daily, at, avg_humidity) ==
    [region |-> region.name, lat |-> region.lat, lon |-> region.lon,
     date |-> target_date,
     high_temp |-> Get(daily, DAILY_VARIABLES.high_temp, <<None>>)[at],
     low_temp |-> Get(daily, DAILY_VARIABLES.low_temp, <<None>>)[at],
     wind_speed |-> Get(daily, DAILY_VARIABLES.wind_speed, <<None>>)[at],
     humidity |-> avg_humidity,
     rain |-> Get(daily, DAILY_VARIABLES.rain, <<None>>)[at]]

\* some daily.get(key, [None])[at] is out of range (at counts from 1 here)
IndexError(daily, at) ==
    \E m \in DailyMetrics : at > Len(Get(daily, DAILY_VARIABLES[m], <<None>>))

(* collect_forecast.py: fetch_forecast *)
fetch_forecast(region, target_date, response) ==
    IF ~response.ok THEN Raise("HTTPError")
    ELSE LET daily == response.daily
             hourly == response.hourly
             humidity_values == Get(hourly, "relative_humidity_2m", <<>>)
         IN  IF humidity_values # <<>> /\ HasNone(humidity_values)
             THEN Raise("TypeError")    \* sum() over a None
             ELSE IF IndexError(daily, 1) THEN Raise("IndexError")
             ELSE Return(record(region, target_date, daily, 1,
                      IF humidity_values # <<>>
                      THEN Some(Round1Of(SeqSum(Unwrap(humidity_values)),
                                         Len(humidity_values)))
                      ELSE None))

(* collect_actual_and_compare.py: fetch_actual *)
fetch_actual(region, target_date, response) ==
    IF ~response.ok THEN Raise("HTTPError")
    ELSE LET daily == response.daily
             hourly == response.hourly
             daily_dates == Get(daily, "time", <<>>)
             found == {i \in 1..Len(daily_dates) : daily_dates[i] = target_date}
             at == CHOOSE i \in found : \A j \in found : i <= j
             hourly_times == Get(hourly, "time", <<>>)
             humidity_values == Get(hourly, "relative_humidity_2m", <<>>)
             keep(i) == /\ StartsWith(hourly_times[i], target_date)
                        /\ i <= Len(humidity_values)
                        /\ ~IsNone(humidity_values[i])
             kept == SelectSeq([i \in 1..Len(hourly_times) |-> i], keep)
             day_humidity == [j \in 1..Len(kept) |-> humidity_values[kept[j]][1]]
         IN  IF found = {} THEN Raise("ValueError")
             ELSE IF IndexError(daily, at) THEN Raise("IndexError")
             ELSE Return(record(region, target_date, daily, at,
                      IF day_humidity # <<>>
                      THEN Some(Round1Of(SeqSum(day_humidity), Len(day_humidity)))
                      ELSE None))

fetch(fetch_mode, region, target_date, response) ==
    IF fetch_mode = "forecast" THEN fetch_forecast(region, target_date, response)
    ELSE fetch_actual(region, target_date, response)

----------------------------------------------------------------------------
(* Provider responses the model draws from *)

\* The value of a variable on a day; salt tells regions and modes apart
Weather(variable, day, salt) ==
    LET base == [temperature_2m_max |-> 24000, temperature_2m_min |-> 11000,
                 precipitation_sum |-> 0, wind_speed_10m_max |-> 18000,
                 relative_humidity_2m |-> 55000]
    IN  base[variable] + day * 1300 + salt

Shapes == {"full", "missing", "short", "null"}

\* The array of a variable over the days first..target_date: complete, cut
\* short by its last entry, or with None at the target date
DailyArray(variable, first, target_date, shape, salt) ==
    LET n == target_date - first + 1
        len == IF shape = "short" THEN n - 1 ELSE n
    IN  [i \in 1..len |->
            IF shape = "null" /\ i = n THEN None
            ELSE Some(Weather(variable, first + i - 1, salt))]

HourlyTimes(first, target_date) ==
    [i \in 1..(target_date - first + 1) * HoursPerDay |->
        [date |-> first + (i - 1) \div HoursPerDay, hour |-> (i - 1) % HoursPerDay]]

HourlyArray(first, target_date, shape, salt) ==
    LET times == HourlyTimes(first, target_date)
        len == IF shape = "short" THEN Len(times) - 1 ELSE Len(times)
    IN  [i \in 1..len |->
            IF shape = "null" /\ i = Len(times) THEN None
            ELSE Some(Weather("relative_humidity_2m", times[i].date,
                              salt + 433 * times[i].hour))]

Present(keys, shapeOf, arrayOf(_)) ==
    [k \in {k \in keys : shapeOf[k] # "missing"} |-> arrayOf(k)]

\* A response covering first..target_date; shapeOf gives each array's shape,
\* and the shape of "time" tells whether the date arrays are there
Response(first, target_date, shapeOf, salt) ==
    LET dailyVars == {DAILY_VARIABLES[m] : m \in DailyMetrics}
        days == [i \in 1..(target_date - first + 1) |-> first + i - 1]
        dailyArr(k) == IF k = "time"
                       THEN (IF shapeOf.time = "short"
                             THEN SubSeq(days, 1, Len(days) - 1) ELSE days)
                       ELSE DailyArray(k, first, target_date, shapeOf[k], salt)
        hourlyArr(k) == IF k = "time" THEN HourlyTimes(first, target_date)
                        ELSE HourlyArray(first, target_date, shapeOf[k], salt)
    IN  [ok |-> TRUE,
         daily |-> Present(dailyVars \cup {"time"}, shapeOf, dailyArr),
         hourly |-> Present({"time", "relative_humidity_2m"}, shapeOf, hourlyArr)]

Down == [ok |-> FALSE]

AllFull ==
    [k \in {DAILY_VARIABLES[m] : m \in DailyMetrics}
           \cup {"time", "relative_humidity_2m"} |-> "full"]

----------------------------------------------------------------------------
(* collect_actual_and_compare.py: compute_accuracy *)

\* actual_by_name.get(name): the last record of that name, or None
actual_by_name(actual_regions, name) ==
    LET hits == {i \in 1..Len(actual_regions) : actual_regions[i].region = name}
    IN  IF hits = {} THEN None
        ELSE Some(actual_regions[CHOOSE i \in hits : \A j \in hits : j <= i])

\* Mutant: a missing side is taken as 0
metric_comp_zero(fc_val, act_val) ==
    LET f == IF IsNone(fc_val) THEN 0 ELSE fc_val[1]
        a == IF IsNone(act_val) THEN 0 ELSE act_val[1]
    IN  [forecast |-> fc_val, actual |-> act_val, diff |-> Some(Round2(Abs(f - a)))]

\* region_comp["metrics"][metric]
metric_comp(fc_val, act_val) ==
    IF IsNone(fc_val) \/ IsNone(act_val)
    THEN [forecast |-> fc_val, actual |-> act_val, diff |-> None]
    ELSE [forecast |-> fc_val, actual |-> act_val,
          diff |-> Some(Round2(Abs(fc_val[1] - act_val[1])))]

region_comp(fc, act) ==
    [region |-> fc.region,
     metrics |-> [m \in MetricSet |->
                    metric_comp(Get(fc, m, None), Get(act, m, None))]]

\* Mutant: the loop runs over the actual set and looks the forecast up
RECURSIVE comparisons_by_actual(_, _)
comparisons_by_actual(forecast_regions, actual_regions) ==
    IF actual_regions = <<>> THEN <<>>
    ELSE LET act == Head(actual_regions)
             fc == actual_by_name(forecast_regions, act.region)
             rest == comparisons_by_actual(forecast_regions, Tail(actual_regions))
         IN  IF IsNone(fc) THEN rest
             ELSE <<region_comp(fc[1], act)>> \o rest

\* the loop over forecast_regions building `comparisons`
RECURSIVE comparisons(_, _)
comparisons(forecast_regions, actual_regions) ==
    IF forecast_regions = <<>> THEN <<>>
    ELSE LET fc == Head(forecast_regions)
             act == actual_by_name(actual_regions, fc.region)
             rest == comparisons(Tail(forecast_regions), actual_regions)
         IN  IF IsNone(act) THEN rest
             ELSE <<region_comp(fc, act[1])>> \o rest

\* Mutant: a comparison without data adds a diff of 0
RECURSIVE diffs_with_zero(_, _)
diffs_with_zero(comps, metric) ==
    IF comps = <<>> THEN <<>>
    ELSE LET d == Head(comps).metrics[metric].diff
         IN  (IF IsNone(d) THEN <<0>> ELSE <<d[1]>>)
             \o diffs_with_zero(Tail(comps), metric)

\* diffs[metric]: the diffs appended while the comparisons were built
RECURSIVE diffs(_, _)
diffs(comps, metric) ==
    IF comps = <<>> THEN <<>>
    ELSE LET d == Head(comps).metrics[metric].diff
         IN  (IF IsNone(d) THEN <<>> ELSE <<d[1]>>) \o diffs(Tail(comps), metric)

\* sum(1 for v in vals if v <= limit), limit in thousandths
CountWithin(vals, limit) == Cardinality({i \in 1..Len(vals) : vals[i] <= limit})

\* round(count / n * 100, 1), in tenths of a percent
Pct(count, n) == RoundHalfEven(count * 1000, n)

\* the largest k in lo..hi with k = 0 or (2k-1)^2 * n^2 <= 4q: round(sqrt(q)/n)
RECURSIVE RoundSqrtDiv(_, _, _, _)
RoundSqrtDiv(q, n, lo, hi) ==
    IF lo >= hi THEN lo
    ELSE LET mid == (lo + hi + 1) \div 2
         IN  IF (2 * mid - 1) * (2 * mid - 1) * n * n <= 4 * q
             THEN RoundSqrtDiv(q, n, mid, hi)
             ELSE RoundSqrtDiv(q, n, lo, mid - 1)

RECURSIVE SeqMax(_)
SeqMax(s) == IF s = <<>> THEN 0
             ELSE LET m == SeqMax(Tail(s)) IN IF Head(s) > m THEN Head(s) ELSE m

\* round(math.sqrt(sum((v - mean_diff) ** 2 for v in vals) / n), 2) if n > 1 else 0
\* vals are multiples of a hundredth; computed in hundredths
std_dev(vals) ==
    LET n == Len(vals)
        c == [i \in 1..n |-> vals[i] \div 10]
        sq == [i \in 1..n |-> c[i] * c[i]]
        q == n * SeqSum(sq) - SeqSum(c) * SeqSum(c)
    IN  IF n > 1 THEN RoundSqrtDiv(q, n, 0, SeqMax(c)) * 10 ELSE 0

\* Mutant: the near and wide thresholds are swapped
metric_summary_swapped(vals, metric) ==
    IF vals = <<>> THEN None
    ELSE LET thresholds == THRESHOLDS[metric]
             n == Len(vals)
         IN  Some([exact_pct |-> Pct(CountWithin(vals, Milli \div 2), n),
                   near_pct |-> Pct(CountWithin(vals, thresholds.wide * Milli), n),
                   near_threshold |-> thresholds.near,
                   wide_pct |-> Pct(CountWithin(vals, thresholds.near * Milli), n),
                   wide_threshold |-> thresholds.wide,
                   mean_diff |-> RoundHalfEven(SeqSum(vals), n * 10) * 10,
                   std_dev |-> std_dev(vals),
                   unit |-> Unit[metric],
                   sample_size |-> n])

\* summary[metric]
metric_summary(vals, metric) ==
    IF vals = <<>> THEN None
    ELSE LET thresholds == THRESHOLDS[metric]
             n == Len(vals)
             exact_count == CountWithin(vals, Milli \div 2)
             near_count == CountWithin(vals, thresholds.near * Milli)
             wide_count == CountWithin(vals, thresholds.wide * Milli)
         IN  Some([exact_pct |-> Pct(exact_count, n),
                   near_pct |-> Pct(near_count, n),
                   near_threshold |-> thresholds.near,
                   wide_pct |-> Pct(wide_count, n),
                   wide_threshold |-> thresholds.wide,
                   mean_diff |-> RoundHalfEven(SeqSum(vals), n * 10) * 10,
                   std_dev |-> std_dev(vals),
                   unit |-> Unit[metric],
                   sample_size |-> n])

compute_accuracy(forecast_regions, actual_regions) ==
    LET comps == comparisons(forecast_regions, actual_regions)
        summary == [m \in MetricSet |-> metric_summary(diffs(comps, m), m)]
        valid == SelectSeq(METRICS, LAMBDA m : ~IsNone(summary[m]))
        wides == [i \in 1..Len(valid) |-> summary[valid[i]][1].wide_pct]
        stds == [i \in 1..Len(valid) |-> summary[valid[i]][1].std_dev]
    IN  [summary |-> summary,
         overall_score |-> IF valid # <<>>
                           THEN RoundHalfEven(SeqSum(wides), Len(valid)) ELSE 0,
         avg_std_dev |-> IF valid # <<>>
                         THEN RoundHalfEven(SeqSum(stds), Len(valid) * 10) * 10 ELSE 0,
         comparisons |-> comps]

----------------------------------------------------------------------------
(* Inputs of compute_accuracy: record sets as the two phases write them *)

\* Sample readings of one region for one day
Readings ==
    { [high_temp |-> Some(20000), low_temp |-> Some(10000), wind_speed |-> Some(15000),
       humidity |-> Some(60000), rain |-> Some(0)],
      [high_temp |-> Some(21300), low_temp |-> Some(10004), wind_speed |-> Some(15400),
       humidity |-> Some(63200), rain |-> None],
      [high_temp |-> None, low_temp |-> Some(15500), wind_speed |-> Some(26000),
       humidity |-> Some(66123), rain |-> Some(7450)] }

Observation(region, date, reading) ==
    [region |-> region.name, lat |-> region.lat, lon |-> region.lon, date |-> date,
     high_temp |-> reading.high_temp, low_temp |-> reading.low_temp,
     wind_speed |-> reading.wind_speed, humidity |-> reading.humidity,
     rain |-> reading.rain]

Absent == [absent |-> TRUE]

\* A record set in catalog order: per region, no record or one reading
RECURSIVE RecordsOf(_, _, _)
RecordsOf(pick, date, i) ==
    IF i > Len(pick) THEN <<>>
    ELSE (IF pick[i] = Absent THEN <<>>
          ELSE <<Observation(Catalog[i], date, pick[i])>>)
         \o RecordsOf(pick, date, i + 1)

RecordSets(date) ==
    {RecordsOf(pick, date, 1) : pick \in [1..MaxRecords -> Readings \cup {Absent}]}

Reverse(s) == [i \in 1..Len(s) |-> s[Len(s) + 1 - i]]

NotRun == [notrun |-> TRUE]
NoExit == [phase |-> "none", code |-> 0, date |-> 0]

PipelineIdle ==
    /\ clock = 1 /\ fetchLog = <<>> /\ failures = 0 /\ exit = NoExit
    /\ forecastsDir = <<>> /\ actualsDir = <<>>
StoreIdle == resultsDir = <<>> /\ prevSummary = None /\ rebuilds = 0
AccIdle == fcIn = <<>> /\ actIn = <<>> /\ accOut = NotRun
FetchIdle == resp = NotRun /\ mode = "none" /\ fetchOut = NotRun

InitAccuracy ==
    /\ PipelineIdle /\ StoreIdle /\ FetchIdle
    /\ \E rs \in RecordSets(1) : fcIn \in {rs, Reverse(rs)}
    /\ actIn \in RecordSets(1)
    /\ accOut = NotRun

ComputeAccuracy ==
    /\ accOut = NotRun
    /\ accOut' = compute_accuracy(fcIn, actIn)
    /\ UNCHANGED <<fcIn, actIn>>
    /\ UNCHANGED <<pipelineVars, storeVars, fetchVars>>

NextAccuracy == ComputeAccuracy

SpecAccuracy == InitAccuracy /\ [][NextAccuracy]_vars

----------------------------------------------------------------------------
(* The stores: a directory maps the names of its files to their documents *)

Exists(dir, name) == name \in DOMAIN dir

\* open(path, "w"); json.dump(doc, f): the whole file is replaced
WriteFile(dir, name, doc) ==
    [n \in DOMAIN dir \cup {name} |-> IF n = name THEN doc ELSE dir[n]]

\* data/results/<date>.json and data/results/summary.json
DayFile(date) == [stem |-> "date", date |-> date, ext |-> ".json"]
SummaryFile == [stem |-> "summary", ext |-> ".json"]

\* sorted(os.listdir(results_dir)) without the names rebuild_summary skips:
\* the date-named files in ascending order of name
RECURSIVE Ascending(_)
Ascending(dates) ==
    IF dates = {} THEN <<>>
    ELSE LET least == CHOOSE d \in dates : \A e \in dates : d <= e
         IN  <<least>> \o Ascending(dates \ {least})

listed(dir) ==
    LET names == {n \in DOMAIN dir : n.ext = ".json" /\ n # SummaryFile}
    IN  Ascending({n.date : n \in names})

\* one entry of all_results
entry(result) ==
    [date |-> result.date,
     overall_score |-> result.accuracy.overall_score,
     avg_std_dev |-> result.accuracy.avg_std_dev,
     summary |-> result.accuracy.summary]

\* Mutant: the sort is ascending
RECURSIVE sort_asc(_)
sort_asc(entries) ==
    IF entries = <<>> THEN <<>>
    ELSE LET rest == sort_asc(SubSeq(entries, 1, Len(entries) - 1))
             last == entries[Len(entries)]
         IN  SelectSeq(rest, LAMBDA e : e.date <= last.date) \o <<last>>
             \o SelectSeq(rest, LAMBDA e : e.date > last.date)

\* list.sort(key=date, reverse=True): stable, entries of equal date keep their order
RECURSIVE sort_desc(_)
sort_desc(entries) ==
    IF entries = <<>> THEN <<>>
    ELSE LET rest == sort_desc(SubSeq(entries, 1, Len(entries) - 1))
             last == entries[Len(entries)]
             before == SelectSeq(rest, LAMBDA e : e.date >= last.date)
             after == SelectSeq(rest, LAMBDA e : e.date < last.date)
         IN  before \o <<last>> \o after

ReadSummary(dir) == IF Exists(dir, SummaryFile) THEN Some(dir[SummaryFile]) ELSE None

\* Mutant: the new entries are merged into the summary that is there
summary_doc_merge(dir, now) ==
    LET names == listed(dir)
        prior == IF Exists(dir, SummaryFile) THEN dir[SummaryFile].results ELSE <<>>
        all_results == sort_desc(prior \o
                          [i \in 1..Len(names) |-> entry(dir[DayFile(names[i])])])
    IN  [last_updated |-> now,
         total_days |-> Len(all_results),
         results |-> all_results]

\* the document rebuild_summary writes
summary_doc(dir, now) ==
    LET names == listed(dir)
        all_results == sort_desc([i \in 1..Len(names) |-> entry(dir[DayFile(names[i])])])
    IN  [last_updated |-> now,
         total_days |-> Len(all_results),
         results |-> all_results]

rebuild_summary(results_dir, now) ==
    WriteFile(results_dir, SummaryFile, summary_doc(results_dir, now))


----------------------------------------------------------------------------
(* The two phases.  One process runs at a time; the clock moves between runs *)

RequestSalt(fetch_mode, i) ==
    170 * i + (IF fetch_mode = "forecast" THEN 0 ELSE 450 * i + 6)

\* The days a response covers: forecast mode asks for the target date alone,
\* actual mode also gets the PAST_DAYS days before it
FirstDay(fetch_mode, target_date) ==
    IF fetch_mode = "forecast" THEN target_date ELSE target_date - PAST_DAYS

\* What the provider answers to the request for region i when it is up: every
\* array in full, but no forecast of precipitation for every second region
UpShapes(fetch_mode, i) ==
    IF fetch_mode = "forecast" /\ i % 2 = 0
    THEN [AllFull EXCEPT !["precipitation_sum"] = "null"]
    ELSE AllFull

Answers == {"up", "down"}

ProviderResponse(fetch_mode, target_date, i, answer) ==
    IF answer = "down" THEN Down
    ELSE Response(FirstDay(fetch_mode, target_date), target_date,
                  UpShapes(fetch_mode, i), RequestSalt(fetch_mode, i))

\* Outages behind the answers of one run: an outage takes down one request,
\* or every request of the run
Outages(answers) ==
    LET down == {i \in DOMAIN answers : answers[i] = "down"}
    IN  IF down = DOMAIN answers THEN 1 ELSE Cardinality(down)

\* Mutant: the first failed fetch ends the loop
RECURSIVE fetch_all_abort(_, _, _, _)
fetch_all_abort(fetch_mode, target_date, answers, i) ==
    IF i > Len(NSW_REGIONS) THEN [records |-> <<>>, log |-> <<>>]
    ELSE LET got == fetch(fetch_mode, NSW_REGIONS[i], target_date,
                          ProviderResponse(fetch_mode, target_date, i, answers[i]))
             rest == IF got.ok
                     THEN fetch_all_abort(fetch_mode, target_date, answers, i + 1)
                     ELSE [records |-> <<>>, log |-> <<>>]
         IN  [records |-> (IF got.ok THEN <<got.value>> ELSE <<>>) \o rest.records,
              log |-> <<[region |-> NSW_REGIONS[i].name, ok |-> got.ok]>> \o rest.log]

\* for region in NSW_REGIONS: try: fetch ... except Exception: ...
\* from region i on: the records appended, and the requests made
RECURSIVE fetch_all(_, _, _, _)
fetch_all(fetch_mode, target_date, answers, i) ==
    IF i > Len(NSW_REGIONS) THEN [records |-> <<>>, log |-> <<>>]
    ELSE LET got == fetch(fetch_mode, NSW_REGIONS[i], target_date,
                          ProviderResponse(fetch_mode, target_date, i, answers[i]))
             rest == fetch_all(fetch_mode, target_date, answers, i + 1)
         IN  [records |-> (IF got.ok THEN <<got.value>> ELSE <<>>) \o rest.records,
              log |-> <<[region |-> NSW_REGIONS[i].name, ok |-> got.ok]>> \o rest.log]

Exit(phase, code, date) == [phase |-> phase, code |-> code, date |-> date]

\* the document of data/forecasts and data/actuals
collection_doc(date, now, type, records) ==
    [date |-> date, collected_at |-> now, type |-> type,
     region_count |-> Len(records), regions |-> records]

\* Mutant: any collected region counts as success
forecast_status_any(forecasts) ==
    IF Len(forecasts) >= 1 THEN 0 ELSE 1

\* status returned by collect_forecast.py main
forecast_status(forecasts) ==
    IF Len(forecasts) = Len(NSW_REGIONS) THEN 0 ELSE 1

\* collect_forecast.py main
ForecastMain ==
    LET target_date == clock
    IN  \E answers \in [1..Len(NSW_REGIONS) -> Answers] :
          /\ failures + Outages(answers) <= MaxFailures
          /\ failures' = failures + Outages(answers)
          /\ \E run \in {fetch_all("forecast", target_date, answers, 1)} :
                LET forecasts == run.records
                IN  /\ fetchLog' = run.log
                    /\ forecastsDir' = WriteFile(forecastsDir, target_date,
                          collection_doc(target_date, clock, "forecast", forecasts))
                    /\ exit' = Exit("forecast", forecast_status(forecasts), target_date)
          /\ UNCHANGED <<clock, actualsDir>>
          /\ UNCHANGED <<storeVars, accVars, fetchVars>>

\* os.path.exists(forecast_path)
forecast_found(dir, date) == Exists(dir, date)

\* Mutant: the missing forecast is reported as success
missing_forecast_status_success == 1 - 1

\* status returned by collect_actual_and_compare.py main without a forecast
missing_forecast_status == 1

\* the document of data/results/<date>.json
result_doc(date, now, forecast_data, accuracy) ==
    [date |-> date, processed_at |-> now,
     forecast_collected_at |-> Get(forecast_data, "collected_at", None),
     accuracy |-> accuracy]

\* collect_actual_and_compare.py main, returning at line 219
CompareMainNoForecast ==
    LET yesterday == clock - 1
    IN  /\ ~forecast_found(forecastsDir, yesterday)
        /\ exit' = Exit("compare", missing_forecast_status, yesterday)
        /\ fetchLog' = <<>>
        /\ UNCHANGED <<clock, failures, forecastsDir, actualsDir>>
        /\ UNCHANGED <<storeVars, accVars, fetchVars>>

\* collect_actual_and_compare.py main, running to line 296
CompareMainRun ==
    LET yesterday == clock - 1
    IN  /\ forecast_found(forecastsDir, yesterday)
        /\ \E answers \in [1..Len(NSW_REGIONS) -> Answers] :
             /\ failures + Outages(answers) <= MaxFailures
             /\ failures' = failures + Outages(answers)
             /\ \E run \in {fetch_all("actual", yesterday, answers, 1)} :
                  LET actuals == run.records
                      forecast_data == forecastsDir[yesterday]
                  IN  /\ fetchLog' = run.log
                      /\ actualsDir' = WriteFile(actualsDir, yesterday,
                            collection_doc(yesterday, clock, "actual", actuals))
                      /\ \E accuracy \in
                              {compute_accuracy(forecast_data.regions, actuals)} :
                            resultsDir' = rebuild_summary(
                                WriteFile(resultsDir, DayFile(yesterday),
                                    result_doc(yesterday, clock, forecast_data,
                                               accuracy)),
                                clock)
        /\ prevSummary' = ReadSummary(resultsDir)
        /\ rebuilds' = IF rebuilds < MaxRebuilds THEN rebuilds + 1 ELSE rebuilds
        /\ exit' = Exit("compare", 0, yesterday)
        /\ UNCHANGED <<clock, forecastsDir>>
        /\ UNCHANGED <<accVars, fetchVars>>

\* midnight AEST passes
Tick ==
    /\ clock < MaxDay
    /\ clock' = clock + 1
    /\ UNCHANGED <<fetchLog, failures, exit, forecastsDir, actualsDir>>
    /\ UNCHANGED <<storeVars, accVars, fetchVars>>

Init == PipelineIdle /\ StoreIdle /\ AccIdle /\ FetchIdle

Next == ForecastMain \/ CompareMainNoForecast \/ CompareMainRun \/ Tick

Spec == Init /\ [][Next]_vars

----------------------------------------------------------------------------
(* rebuild_summary on a results directory *)

\* Accuracy results of a day: nothing to compare, and a day with data
SampleAccuracies ==
    { compute_accuracy(<<>>, <<>>),
      compute_accuracy(
          <<Observation(Catalog[1], 1, CHOOSE r \in Readings : IsNone(r.rain))>>,
          <<Observation(Catalog[1], 1, CHOOSE r \in Readings : IsNone(r.high_temp))>>) }

\* Directories holding the day results of some of the days 1..MaxDay
DayResultDirs ==
    LET Choices == [1..MaxDay -> SampleAccuracies \cup {Absent}]
        dirOf(c) == [n \in {DayFile(d) : d \in {e \in 1..MaxDay : c[e] # Absent}} |->
                        result_doc(n.date, n.date + 1, [collected_at |-> n.date],
                                   c[n.date])]
    IN  {dirOf(c) : c \in Choices}

\* What summary.json may hold before a rebuild: entries of present or deleted
\* day results in any order, with any count
PriorSummaries(dir) ==
    LET ghost == [date |-> 0, overall_score |-> 0, avg_std_dev |-> 0,
                  summary |-> [m \in MetricSet |-> None]]
        known == {entry(dir[n]) : n \in DOMAIN dir} \cup {ghost}
        feeds == {<<>>} \cup {<<e>> : e \in known}
                        \cup {<<e, f>> : e \in known, f \in known}
    IN  {[last_updated |-> 0, total_days |-> t, results |-> rs] :
            t \in {0, MaxDay}, rs \in feeds}

InitSummary ==
    /\ PipelineIdle /\ AccIdle /\ FetchIdle
    /\ \E dir \in DayResultDirs :
          resultsDir \in {dir} \cup
              {WriteFile(dir, SummaryFile, prior) : prior \in PriorSummaries(dir)}
    /\ prevSummary = None
    /\ rebuilds = 0

\* rebuild_summary(results_dir) called on its own
RebuildSummary ==
    /\ rebuilds < MaxRebuilds
    /\ resultsDir' = rebuild_summary(resultsDir, clock)
    /\ prevSummary' = ReadSummary(resultsDir)
    /\ rebuilds' = rebuilds + 1
    /\ UNCHANGED <<pipelineVars, accVars, fetchVars>>

NextSummary == RebuildSummary \/ Tick

SpecSummary == InitSummary /\ [][NextSummary]_vars

----------------------------------------------------------------------------
(* fetch_forecast and fetch_actual on one provider response *)

TargetDay == PAST_DAYS + 1

\* forecast mode asks for the target date alone; actual mode may get up to
\* PAST_DAYS days before it
FirstDays(fetch_mode) ==
    IF fetch_mode = "forecast" THEN {TargetDay}
    ELSE (TargetDay - PAST_DAYS)..TargetDay

ShapeChoices ==
    {sh \in [DOMAIN AllFull -> Shapes] : sh.time \in {"full", "short"}}

InitFetch ==
    /\ PipelineIdle /\ StoreIdle /\ AccIdle
    /\ mode \in {"forecast", "actual"}
    /\ resp \in {Down} \cup
            {Response(first, TargetDay, sh, 0) :
                first \in FirstDays(mode), sh \in ShapeChoices}
    /\ fetchOut = NotRun

Fetch ==
    /\ fetchOut = NotRun
    /\ fetchOut' = fetch(mode, NSW_REGIONS[1], TargetDay, resp)
    /\ UNCHANGED <<resp, mode>>
    /\ UNCHANGED <<pipelineVars, storeVars, accVars>>

NextFetch == Fetch

SpecFetch == InitFetch /\ [][NextFetch]_vars

----------------------------------------------------------------------------
(* Properties *)

Names(records) == [i \in 1..Len(records) |-> records[i].region]
CatalogNames == [i \in 1..Len(NSW_REGIONS) |-> NSW_REGIONS[i].name]
Fetched == SelectSeq(fetchLog, LAMBDA r : r.ok)

\* C1 as stated: the forecast phase exits 0 whenever at least one region was
\* collected, and non-zero only when none was.  (Refuted.)
C1_PartialSuccessExitsZero ==
    exit.phase = "forecast" =>
        (exit.code = 0 <=> forecastsDir[exit.date].region_count >= 1)

\* C1 amended: the forecast phase exits 0 exactly when every catalog region
\* was collected; with any region missing it exits 1, and the forecast
\* document of the collected regions is written all the same.
C1_ExitZeroOnlyWhenAllCollected ==
    exit.phase = "forecast" =>
        /\ Exists(forecastsDir, exit.date)
        /\ forecastsDir[exit.date].region_count = Cardinality({i \in DOMAIN fetchLog : fetchLog[i].ok})
        /\ exit.code \in {0, 1}
        /\ exit.code = 0 <=> \A i \in DOMAIN fetchLog : fetchLog[i].ok

\* C1 witness: a run that collected some but not all regions and exited non-zero
C1_Witness ==
    /\ exit.phase = "forecast"
    /\ exit.code # 0
    /\ forecastsDir[exit.date].region_count >= 1
    /\ forecastsDir[exit.date].region_count < Len(NSW_REGIONS)

\* C2: a comparison run whose target date has no forecast document returns
\* non-zero, fetches nothing and leaves every stored document as it was.
C2_MissingForecastAborts ==
    [][ (clock' = clock /\ exit'.phase = "compare"
            /\ ~Exists(forecastsDir, clock - 1))
        => /\ exit'.code # 0
           /\ exit'.date = clock - 1
           /\ fetchLog' = <<>>
           /\ UNCHANGED <<forecastsDir, actualsDir, resultsDir>> ]_vars

\* C2 witness: the comparison failed for want of yesterday's forecast while
\* other documents are stored
C2_Witness ==
    /\ exit.phase = "compare"
    /\ exit.code # 0
    /\ ~Exists(forecastsDir, exit.date)
    /\ DOMAIN forecastsDir # {}
    /\ Exists(resultsDir, SummaryFile)

\* C3: a phase that reaches its loop requests every catalog region once, in
\* catalog order, whatever failed before; the stored records are those of
\* the requests that succeeded, in that order, and region_count counts them.
C3_EveryRegionFetchedOnceInOrder ==
    (exit.phase = "forecast" \/ (exit.phase = "compare" /\ exit.code = 0)) =>
        LET dir == IF exit.phase = "forecast" THEN forecastsDir ELSE actualsDir
            doc == dir[exit.date]
        IN  /\ Names(fetchLog) = CatalogNames
            /\ Names(doc.regions) = Names(Fetched)
            /\ doc.region_count = Len(Fetched)
            /\ \A i \in DOMAIN doc.regions : doc.regions[i].date = exit.date

\* C3 witness: a comparison run whose first request failed and whose later
\* request succeeded
C3_Witness ==
    /\ exit.phase = "compare" /\ exit.code = 0
    /\ ~fetchLog[1].ok
    /\ fetchLog[Len(fetchLog)].ok
    /\ actualsDir[exit.date].region_count = Len(NSW_REGIONS) - 1

InNames(name, records) == \E j \in DOMAIN records : records[j].region = name
ByName(name, records) == records[CHOOSE j \in DOMAIN records : records[j].region = name]

\* C4: the comparisons are the forecast records whose region name some actual
\* record bears, in the order of the forecast set; no other region appears.
C4_ComparisonsAreMatchedForecasts ==
    accOut # NotRun =>
        Names(accOut.comparisons)
            = Names(SelectSeq(fcIn, LAMBDA fc : InNames(fc.region, actIn)))

\* C4 witness: a forecast set in reverse catalog order with one region that
\* has no actual, and an actual set with one region that has no forecast
C4_Witness ==
    /\ accOut # NotRun
    /\ Len(accOut.comparisons) = 1
    /\ Len(fcIn) = 2 /\ Len(actIn) = 2
    /\ fcIn[1].region = Catalog[3].name
    /\ accOut.comparisons[1].region = Catalog[2].name

\* The two sides of a comparison, read from the arguments
ForecastSide(comp, m) == ByName(comp.region, fcIn)[m]
ActualSide(comp, m) == ByName(comp.region, actIn)[m]

\* C5 as stated: every metric key is there, diff is null exactly when a side
\* is null, and otherwise diff is the absolute difference.  (Refuted.)
C5_DiffIsAbsoluteDifference ==
    accOut # NotRun =>
        \A i \in DOMAIN accOut.comparisons : \A m \in MetricSet :
            LET comp == accOut.comparisons[i]
                f == ForecastSide(comp, m)
                a == ActualSide(comp, m)
            IN  /\ DOMAIN comp.metrics = MetricSet
                /\ IsNone(comp.metrics[m].diff) <=> (IsNone(f) \/ IsNone(a))
                /\ ~IsNone(comp.metrics[m].diff) =>
                      comp.metrics[m].diff[1] = Abs(f[1] - a[1])

\* C5 amended: every metric key is there, diff is null exactly when a side is
\* null, and otherwise diff is the absolute difference rounded to 2 decimals:
\* a whole number of hundredths within half a hundredth of it.
C5_DiffIsRoundedAbsoluteDifference ==
    accOut # NotRun =>
        \A i \in DOMAIN accOut.comparisons : \A m \in MetricSet :
            LET comp == accOut.comparisons[i]
                f == ForecastSide(comp, m)
                a == ActualSide(comp, m)
                d == comp.metrics[m].diff
            IN  /\ DOMAIN comp.metrics = MetricSet
                /\ comp.metrics[m].forecast = f
                /\ comp.metrics[m].actual = a
                /\ IsNone(d) <=> (IsNone(f) \/ IsNone(a))
                /\ ~IsNone(d) =>
                      /\ (d[1] * 100) % Milli = 0
                      /\ 2 * 100 * Abs(d[1] - Abs(f[1] - a[1])) <= Milli

\* C5 witness: one region's comparison holds a null diff, and a diff that
\* differs from the unrounded difference
C5_Witness ==
    /\ accOut # NotRun
    /\ \E i \in DOMAIN accOut.comparisons :
          LET comp == accOut.comparisons[i]
          IN  /\ \E m \in MetricSet : IsNone(comp.metrics[m].diff)
              /\ \E m \in MetricSet :
                    /\ ~IsNone(comp.metrics[m].diff)
                    /\ comp.metrics[m].diff[1]
                          # Abs(ForecastSide(comp, m)[1] - ActualSide(comp, m)[1])

\* Matched regions with both sides of a metric present
Samples(m) ==
    {i \in DOMAIN fcIn :
        /\ InNames(fcIn[i].region, actIn)
        /\ ~IsNone(fcIn[i][m])
        /\ ~IsNone(ByName(fcIn[i].region, actIn)[m])}

\* C6: a metric's summary is null exactly when no matched region has both
\* sides; otherwise sample_size is the number of matched regions with both.
C6_SummaryNullIffNoSamples ==
    accOut # NotRun =>
        \A m \in MetricSet :
            /\ IsNone(accOut.summary[m]) <=> Samples(m) = {}
            /\ ~IsNone(accOut.summary[m]) =>
                  accOut.summary[m][1].sample_size = Cardinality(Samples(m))

\* C6 witness: one metric without samples, and one with fewer samples than
\* matched regions
C6_Witness ==
    /\ accOut # NotRun
    /\ \E m \in MetricSet : IsNone(accOut.summary[m])
    /\ \E m \in MetricSet :
          /\ ~IsNone(accOut.summary[m])
          /\ accOut.summary[m][1].sample_size >= 2
          /\ accOut.summary[m][1].sample_size < Len(accOut.comparisons)

\* The summary feed lists the day results of the directory, newest first
DayDates(dir) == {n.date : n \in {n \in DOMAIN dir : n # SummaryFile}}
FeedMatches(dir) ==
    LET feed == dir[SummaryFile]
        days == DayDates(dir)
    IN  /\ feed.total_days = Cardinality(days)
        /\ Len(feed.results) = Cardinality(days)
        /\ \A i \in DOMAIN feed.results :
              LET e == feed.results[i]
              IN  /\ e.date \in days
                  /\ dir[DayFile(e.date)].date = e.date
                  /\ e.overall_score = dir[DayFile(e.date)].accuracy.overall_score
                  /\ e.avg_std_dev = dir[DayFile(e.date)].accuracy.avg_std_dev
                  /\ e.summary = dir[DayFile(e.date)].accuracy.summary
        /\ \A i, j \in DOMAIN feed.results :
              i < j => feed.results[i].date > feed.results[j].date

\* C7: after successful comparison runs, re-runs included, the feed holds one
\* entry per day-result document, dates strictly descending, and total_days
\* is the number of those documents.
C7_FeedListsEveryDayResult ==
    /\ (exit.phase = "compare" /\ exit.code = 0) =>
          /\ Exists(resultsDir, SummaryFile)
          /\ Exists(resultsDir, DayFile(exit.date))
          /\ resultsDir[DayFile(exit.date)].processed_at = exit.date + 1
    /\ Exists(resultsDir, SummaryFile) => FeedMatches(resultsDir)

\* C7 witness: a re-run for a date whose result was in a feed of two days
C7_Witness ==
    /\ exit.phase = "compare" /\ exit.code = 0
    /\ resultsDir[SummaryFile].total_days >= 2
    /\ ~IsNone(prevSummary)
    /\ prevSummary[1].total_days = resultsDir[SummaryFile].total_days

\* C8: what rebuild_summary writes depends on the day results alone, whatever
\* summary was there; a second call changes nothing but last_updated.
C8_RebuildIgnoresPriorSummary ==
    rebuilds >= 1 =>
        /\ Exists(resultsDir, SummaryFile)
        /\ FeedMatches(resultsDir)
        /\ rebuilds >= 2 =>
              /\ prevSummary[1].results = resultsDir[SummaryFile].results
              /\ prevSummary[1].total_days = resultsDir[SummaryFile].total_days

\* C8 witness: a second rebuild at a later time over several day results
C8_Witness ==
    /\ rebuilds = 2
    /\ resultsDir[SummaryFile].total_days >= 2
    /\ prevSummary[1].last_updated # resultsDir[SummaryFile].last_updated

\* C9: in every metric summary exact_pct <= near_pct <= wide_pct.
C9_PercentagesAreMonotone ==
    accOut # NotRun =>
        \A m \in MetricSet :
            ~IsNone(accOut.summary[m]) =>
                /\ accOut.summary[m][1].exact_pct <= accOut.summary[m][1].near_pct
                /\ accOut.summary[m][1].near_pct <= accOut.summary[m][1].wide_pct

\* C9 witness: a summary whose three percentages differ
C9_Witness ==
    /\ accOut # NotRun
    /\ \E m \in MetricSet :
          /\ ~IsNone(accOut.summary[m])
          /\ accOut.summary[m][1].exact_pct < accOut.summary[m][1].near_pct
          /\ accOut.summary[m][1].near_pct < accOut.summary[m][1].wide_pct

\* The value of a daily variable at the target date, None when the array is
\* missing or ends before it
TargetPositions == {i \in DOMAIN Get(resp.daily, "time", <<>>) : resp.daily.time[i] = TargetDay}
AtTarget(variable) ==
    LET values == Get(resp.daily, variable, <<>>)
        at == CHOOSE i \in TargetPositions : \A j \in TargetPositions : i <= j
    IN  IF at <= Len(values) THEN values[at] ELSE None

\* The humidity values of the target date that are present
TargetHumidity ==
    LET times == Get(resp.hourly, "time", <<>>)
        values == Get(resp.hourly, "relative_humidity_2m", <<>>)
        at == SelectSeq([i \in 1..Len(values) |-> i],
                        LAMBDA i : /\ ~IsNone(values[i])
                                   /\ i <= Len(times)
                                   /\ times[i].date = TargetDay)
    IN  [j \in 1..Len(at) |-> values[at[j]][1]]

\* C10: in both modes, for a response that contains the target date, a daily
\* array that is missing, short or null at the date gives null for its metric
\* and leaves the others populated, humidity is averaged over the non-null
\* values, and the fetch does not fail.  (Refuted by the code.)
C10_GapsGiveNullNotFailure ==
    (fetchOut # NotRun /\ resp.ok /\ TargetPositions # {}) =>
        /\ fetchOut.ok
        /\ \A m \in DailyMetrics : fetchOut.value[m] = AtTarget(DAILY_VARIABLES[m])
        /\ "time" \in DOMAIN resp.hourly =>
              fetchOut.value.humidity =
                  IF TargetHumidity = <<>> THEN None
                  ELSE Some(Round1Of(SeqSum(TargetHumidity), Len(TargetHumidity)))

====
